---- MODULE Spec2Model ----
(***************************************************************************)
(* Channel membership of fabric-sdk-go (pkg/fab/channel/membership):       *)
(* assembly of the MSP manager from the channel's MSP configs (New,        *)
(* createMSPManager, loadMSPs, getFabricConfig, addCertsToConfig) and the   *)
(* two operations of the resulting membership object (Validate, Verify),   *)
(* plus the test helper updateCAServerURL of pkg/msp.                      *)
(***************************************************************************)
EXTENDS Naturals, Sequences, FiniteSets, TLC

(***************************************************************************)
(* Bounds of the model.                                                    *)
(***************************************************************************)
\* longest list of MSP configs handed to New
MaxConfigs == 2
\* longest byte input (counted in PEM items) handed to addCertsToConfig
MaxPemLen == 3
\* number of goroutines calling Validate / Verify on one membership object
MaxCallers == 2
\* the instant (time.Now) at which certificate dates are compared
Now == 1

(***************************************************************************)
(* Certificates.  A DER byte string is named by a string; ParseCertificate *)
(* yields the certificate it encodes, or fails.                            *)
(***************************************************************************)
NoCert == [subject |-> "none", issuer |-> "none", key |-> "none", nb |-> 0, na |-> 0]

\* DER strings that x509.ParseCertificate accepts, with the certificate each encodes
\* (idExpired and idFuture are earlier and later certificates of idGood's key)
CertTable ==
  [d \in {"idGood", "idExpired", "idFuture", "tlsGood", "tlsExpired"} |->
     CASE d = "idGood"     -> [subject |-> "alice", issuer |-> "R1", key |-> "kA", nb |-> 0, na |-> Now + 2]
       [] d = "idExpired"  -> [subject |-> "alice", issuer |-> "R1", key |-> "kA", nb |-> 0, na |-> 0]
       [] d = "idFuture"   -> [subject |-> "alice", issuer |-> "R1", key |-> "kA", nb |-> Now + 2, na |-> Now + 3]
       [] d = "tlsGood"    -> [subject |-> "tls1",  issuer |-> "T1", key |-> "kT", nb |-> 0, na |-> Now + 2]
       [] d = "tlsExpired" -> [subject |-> "tls2",  issuer |-> "T1", key |-> "kU", nb |-> 0, na |-> 0]]

\* x509.ParseCertificate(der): ok with the certificate, or an error
ParseCertificate(der) ==
  IF der \in DOMAIN CertTable
    THEN [ok |-> TRUE, cert |-> CertTable[der]]
    ELSE [ok |-> FALSE, cert |-> NoCert]

\* verifier.ValidateCertificateDates(cert): TRUE iff no error is returned
ValidateCertificateDates(cert) ==
  ~(Now < cert.nb) /\ ~(Now > cert.na)

(***************************************************************************)
(* PEM.  A byte string is a sequence of items: a well-formed PEM block     *)
(* (type, headers present or not, DER payload) or a run of bytes that is   *)
(* no well-formed block (text, or a BEGIN line with no matching END).      *)
(***************************************************************************)
Junk == [kind |-> "junk", type |-> "", hdr |-> FALSE, der |-> ""]

Block(t, h, d) == [kind |-> "block", type |-> t, hdr |-> h, der |-> d]

\* pem.Decode's scan for the first well-formed block and the bytes after it
RECURSIVE pemScan(_)
pemScan(data) ==
  IF data = <<>>
    THEN [found |-> FALSE, block |-> Junk, rest |-> <<>>]
    ELSE IF Head(data).kind = "block"
      THEN [found |-> TRUE, block |-> Head(data), rest |-> Tail(data)]
      ELSE pemScan(Tail(data))

\* pem.Decode(data): the first well-formed block and the bytes after it; when
\* data holds no well-formed block, found = FALSE (block == nil) and rest is
\* the whole of data
pemDecode(data) ==
  LET r == pemScan(data) IN
    IF r.found THEN r ELSE [found |-> FALSE, block |-> Junk, rest |-> data]

(***************************************************************************)
(* The TLS trust-pool sink (fab.EndpointConfig).  Its state is the         *)
(* certificates handed to TLSCACertPool so far, in call order, and whether *)
(* its calls return an error.                                              *)
(***************************************************************************)
EmptySink(failing) == [calls |-> <<>>, failing |-> failing]

\* config.TLSCACertPool(cert): the sink after the call and the error returned
TLSCACertPool(sink, der) ==
  [sink |-> [sink EXCEPT !.calls = Append(sink.calls, der)], err |-> sink.failing]

(***************************************************************************)
(* addCertsToConfig.  The loop state is the bytes left (pemCerts), the     *)
(* sink and whether the loop has been left.                                *)
(***************************************************************************)
\* faulty variant: a certificate failing the date check is not forwarded
addCertsIter_DropInvalid(st) ==
  IF Len(st.pemCerts) = 0
    THEN [st EXCEPT !.done = TRUE]
    ELSE LET d == pemDecode(st.pemCerts) IN
      IF ~d.found
        THEN [st EXCEPT !.done = TRUE]
        ELSE IF d.block.type # "CERTIFICATE" \/ d.block.hdr
          THEN [st EXCEPT !.pemCerts = d.rest]
          ELSE LET p == ParseCertificate(d.block.der) IN
            IF ~p.ok
              THEN [st EXCEPT !.pemCerts = d.rest]
              ELSE IF ~ValidateCertificateDates(p.cert)
                THEN [st EXCEPT !.pemCerts = d.rest]
                ELSE [st EXCEPT !.pemCerts = d.rest,
                                !.sink = TLSCACertPool(st.sink, d.block.der).sink]

\* one evaluation of the loop condition and, if it holds, of the loop body
addCertsIter(st) ==
  IF Len(st.pemCerts) = 0
    THEN [st EXCEPT !.done = TRUE]
    ELSE LET d == pemDecode(st.pemCerts) IN
      IF ~d.found
        THEN [st EXCEPT !.done = TRUE]                      \* break
        ELSE IF d.block.type # "CERTIFICATE" \/ d.block.hdr
          THEN [st EXCEPT !.pemCerts = d.rest]              \* continue
          ELSE LET p == ParseCertificate(d.block.der) IN
            IF ~p.ok
              THEN [st EXCEPT !.pemCerts = d.rest]          \* continue
              \* a date error is only logged; the certificate is forwarded
              ELSE [st EXCEPT !.pemCerts = d.rest,
                              !.sink = TLSCACertPool(st.sink, d.block.der).sink]

RECURSIVE addCertsLoop(_)
addCertsLoop(st) ==
  IF st.done THEN st.sink ELSE addCertsLoop(addCertsIter(st))

\* addCertsToConfig(config, pemCerts): the sink's calls after the function returns
addCertsToConfig(sink, pemCerts) ==
  addCertsLoop([pemCerts |-> pemCerts, sink |-> sink, done |-> FALSE])

(***************************************************************************)
(* MSP configs (mb.MSPConfig).  Type is the provider type; Config is the   *)
(* payload: zero bytes ("empty"), bytes that are no FabricMSPConfig        *)
(* ("garbled"), or the encoding of a FabricMSPConfig ("proto").            *)
(***************************************************************************)
FABRIC == "FABRIC"

ZeroFabricConfig == [name |-> "", roots |-> <<>>, tlsRoots |-> <<>>, tlsInter |-> <<>>]

EmptyPayload == [enc |-> "empty", fc |-> ZeroFabricConfig]

GarbledPayload == [enc |-> "garbled", fc |-> ZeroFabricConfig]

ProtoPayload(n, r, tr, ti) ==
  [enc |-> "proto", fc |-> [name |-> n, roots |-> r, tlsRoots |-> tr, tlsInter |-> ti]]

\* len(config.Config)
PayloadLen(payload) == IF payload.enc = "empty" THEN 0 ELSE 1

\* proto.Unmarshal(config.Config, fabricConfig): zero bytes decode to the zero message
UnmarshalFabricConfig(payload) ==
  CASE payload.enc = "garbled" -> [ok |-> FALSE, fc |-> ZeroFabricConfig]
    [] payload.enc = "empty"   -> [ok |-> TRUE, fc |-> ZeroFabricConfig]
    [] OTHER                   -> [ok |-> TRUE, fc |-> payload.fc]

\* faulty variant: the check for root certificates is missing
getFabricConfig_NoRootCheck(config) ==
  LET u == UnmarshalFabricConfig(config.payload) IN
    IF ~u.ok THEN [ok |-> FALSE, err |-> "MalformedConfig", fc |-> ZeroFabricConfig]
    ELSE IF u.fc.name = "" THEN [ok |-> FALSE, err |-> "MissingName", fc |-> ZeroFabricConfig]
    ELSE [ok |-> TRUE, err |-> "", fc |-> u.fc]

\* getFabricConfig(config): the decoded config, or the error
getFabricConfig(config) ==
  LET u == UnmarshalFabricConfig(config.payload) IN
    IF ~u.ok THEN [ok |-> FALSE, err |-> "MalformedConfig", fc |-> ZeroFabricConfig]
    ELSE IF u.fc.name = "" THEN [ok |-> FALSE, err |-> "MissingName", fc |-> ZeroFabricConfig]
    ELSE IF Len(u.fc.roots) = 0 THEN [ok |-> FALSE, err |-> "MissingRootCerts", fc |-> ZeroFabricConfig]
    ELSE [ok |-> TRUE, err |-> "", fc |-> u.fc]

(***************************************************************************)
(* The MSP (trust domain) and the MSP manager of the msp package.          *)
(***************************************************************************)
\* a root certificate's bytes parse unless they are the unparsable "Rbad"
RootParses(r) == r # "Rbad"

\* newMSP.Setup(config): the MSP built from the config's payload, or an error when
\* a root certificate does not parse
MSPSetup(config) ==
  LET fc == UnmarshalFabricConfig(config.payload).fc IN
    IF \E i \in 1..Len(fc.roots) : ~RootParses(fc.roots[i])
      THEN [ok |-> FALSE, msp |-> ZeroFabricConfig]
      ELSE [ok |-> TRUE, msp |-> fc]

\* newMSP.GetIdentifier()
GetIdentifier(msp) == msp.name

\* msp.NewMSPManager(): a manager that is not set up, with no MSP
NewMSPManager == [up |-> FALSE, mspsMap |-> <<>>]

\* the map after mgr.mspsMap[mspID] = msp for each MSP of the list, in order
RECURSIVE SetupMap(_, _)
SetupMap(m, msps) ==
  IF msps = <<>> THEN m
  ELSE LET id == GetIdentifier(Head(msps)) IN
    SetupMap([k \in DOMAIN m \cup {id} |-> IF k = id THEN Head(msps) ELSE m[k]],
             Tail(msps))

\* mspManager.Setup(msps): mspsMap[mspID] = msp for each MSP in order; the error
\* outcome is the collaborator's (fails) and leaves the manager as it was
MSPManagerSetup(mgr, msps, fails) ==
  IF fails THEN [ok |-> FALSE, mgr |-> mgr]
  ELSE [ok |-> TRUE, mgr |-> [up |-> TRUE, mspsMap |-> SetupMap(<<>>, msps)]]

(***************************************************************************)
(* Errors of the collaborators.  A call of New meets at most one that      *)
(* matters, since the first error returns: kind names the collaborator     *)
(* that returns an error ("none" for none) and at the position, in the     *)
(* config list, of the MSP it is called for (0 for the manager's Setup).   *)
(***************************************************************************)
NoFault == [kind |-> "none", at |-> 0]

FaultHits(fault, kind, pos) == fault.kind = kind /\ fault.at = pos

(***************************************************************************)
(* loadMSPs and createMSPManager.                                          *)
(***************************************************************************)
\* the body of loadMSPs' loop for one config: the MSP built, or the error;
\* newErr and idErr say whether msp.NewBccspMsp and newMSP.GetIdentifier
\* return an error in this iteration
loadOne(config, newErr, idErr) ==
  IF config.type # FABRIC
    THEN [ok |-> FALSE, err |-> "UnsupportedProviderType", msp |-> ZeroFabricConfig]
  ELSE IF PayloadLen(config.payload) = 0
    THEN [ok |-> FALSE, err |-> "MissingPayload", msp |-> ZeroFabricConfig]
  ELSE LET g == getFabricConfig(config) IN
    IF ~g.ok
      THEN [ok |-> FALSE, err |-> g.err, msp |-> ZeroFabricConfig]
    ELSE IF newErr                                           \* instantiate MSP failed
      THEN [ok |-> FALSE, err |-> "CryptoError", msp |-> ZeroFabricConfig]
    ELSE LET s == MSPSetup(config) IN
      IF ~s.ok                                               \* configure MSP failed
        THEN [ok |-> FALSE, err |-> "CryptoError", msp |-> ZeroFabricConfig]
      ELSE IF idErr                                          \* failed to get identifier
        THEN [ok |-> FALSE, err |-> "CryptoError", msp |-> ZeroFabricConfig]
        ELSE [ok |-> TRUE, err |-> "", msp |-> s.msp]

\* the loop body for the config at position pos of the list
loadAt(config, pos, fault) ==
  loadOne(config, FaultHits(fault, "NewBccspMsp", pos), FaultHits(fault, "GetIdentifier", pos))

\* loadMSPs(mspConfigs, cs) continued from the MSPs built so far: all MSPs in
\* config order, or the first error and no MSP
RECURSIVE loadMSPsFrom(_, _, _)
loadMSPsFrom(msps, mspConfigs, fault) ==
  IF mspConfigs = <<>> THEN [ok |-> TRUE, err |-> "", msps |-> msps]
  ELSE LET one == loadAt(Head(mspConfigs), Len(msps) + 1, fault) IN
    IF ~one.ok THEN [ok |-> FALSE, err |-> one.err, msps |-> <<>>]
    ELSE loadMSPsFrom(Append(msps, one.msp), Tail(mspConfigs), fault)

loadMSPs(mspConfigs, fault) == loadMSPsFrom(<<>>, mspConfigs, fault)

\* addCertsToConfig over each byte string of a list (one inner for loop)
RECURSIVE addCertList(_, _)
addCertList(sink, certs) ==
  IF certs = <<>> THEN sink
  ELSE addCertList(addCertsToConfig(sink, Head(certs)), Tail(certs))

\* the loop over the MSPs: TLS roots, then TLS intermediates, of each MSP in order
RECURSIVE addTLSCerts(_, _)
addTLSCerts(sink, msps) ==
  IF msps = <<>> THEN sink
  ELSE addTLSCerts(addCertList(addCertList(sink, Head(msps).tlsRoots), Head(msps).tlsInter),
                   Tail(msps))

NoManager == [present |-> FALSE, mgr |-> NewMSPManager]

\* the MSPs of the configs that precede the first config loadMSPs rejects
RECURSIVE builtBeforeFailure(_, _, _)
builtBeforeFailure(mspConfigs, pos, fault) ==
  IF mspConfigs = <<>> \/ ~loadAt(Head(mspConfigs), pos, fault).ok THEN <<>>
  ELSE <<loadAt(Head(mspConfigs), pos, fault).msp>>
       \o builtBeforeFailure(Tail(mspConfigs), pos + 1, fault)

\* whether the DER strings of a list all pass the date check
DatesAllValid(ders) ==
  \A i \in 1..Len(ders) : ValidateCertificateDates(ParseCertificate(ders[i]).cert)

\* faulty variant: the TLS certificates of an MSP are forwarded as soon as the MSP is built
createMSPManager_EagerTLS(cfgs, fault, sink) ==
  IF Len(cfgs) > 0
    THEN LET l == loadMSPs(cfgs, fault) IN
      IF ~l.ok
        THEN [ok |-> FALSE, err |-> l.err, member |-> NoManager,
              sink |-> addTLSCerts(sink, builtBeforeFailure(cfgs, 1, fault))]
      ELSE LET s == MSPManagerSetup(NewMSPManager, l.msps, FaultHits(fault, "ManagerSetup", 0)) IN
        IF ~s.ok
          THEN [ok |-> FALSE, err |-> "ManagerSetupFailed", member |-> NoManager,
                sink |-> addTLSCerts(sink, l.msps)]
          ELSE [ok |-> TRUE, err |-> "", member |-> [present |-> TRUE, mgr |-> s.mgr],
                sink |-> addTLSCerts(sink, l.msps)]
    ELSE [ok |-> TRUE, err |-> "", member |-> [present |-> TRUE, mgr |-> NewMSPManager],
          sink |-> sink]

\* faulty variant: a TLS certificate outside its window, or an error of the sink, fails the assembly
createMSPManager_TLSFatal(cfgs, fault, sink) ==
  IF Len(cfgs) > 0
    THEN LET l == loadMSPs(cfgs, fault) IN
      IF ~l.ok
        THEN [ok |-> FALSE, err |-> l.err, member |-> NoManager, sink |-> sink]
      ELSE LET s == MSPManagerSetup(NewMSPManager, l.msps, FaultHits(fault, "ManagerSetup", 0))
               after == addTLSCerts(sink, l.msps) IN
        IF ~s.ok
          THEN [ok |-> FALSE, err |-> "ManagerSetupFailed", member |-> NoManager, sink |-> sink]
        ELSE IF (after.calls # sink.calls /\ sink.failing) \/ ~DatesAllValid(after.calls)
          THEN [ok |-> FALSE, err |-> "TemporalValidityError", member |-> NoManager, sink |-> after]
          ELSE [ok |-> TRUE, err |-> "", member |-> [present |-> TRUE, mgr |-> s.mgr],
                sink |-> after]
    ELSE [ok |-> TRUE, err |-> "", member |-> [present |-> TRUE, mgr |-> NewMSPManager],
          sink |-> sink]

\* createMSPManager(ctx, cfg): (manager, nil) or (nil, error), and the sink afterwards
createMSPManager(cfgs, fault, sink) ==
  IF Len(cfgs) > 0
    THEN LET l == loadMSPs(cfgs, fault) IN
      IF ~l.ok
        THEN [ok |-> FALSE, err |-> l.err, member |-> NoManager, sink |-> sink]
      ELSE LET s == MSPManagerSetup(NewMSPManager, l.msps, FaultHits(fault, "ManagerSetup", 0)) IN
        IF ~s.ok
          THEN [ok |-> FALSE, err |-> "ManagerSetupFailed", member |-> NoManager, sink |-> sink]
          ELSE [ok |-> TRUE, err |-> "", member |-> [present |-> TRUE, mgr |-> s.mgr],
                sink |-> addTLSCerts(sink, l.msps)]
    ELSE [ok |-> TRUE, err |-> "", member |-> [present |-> TRUE, mgr |-> NewMSPManager],
          sink |-> sink]

(***************************************************************************)
(* Serialized identities (mb.SerializedIdentity): bytes that do not decode *)
(* ("garbled"), or the encoding of (Mspid, IdBytes) with IdBytes a PEM     *)
(* byte string.  A signature names the key that made it and the message.   *)
(***************************************************************************)
GarbledIdentity == [enc |-> "garbled", mspid |-> "", idBytes |-> <<>>]

SerializedIdentity(m, b) == [enc |-> "proto", mspid |-> m, idBytes |-> b]

\* proto.Unmarshal(serializedID, sID)
UnmarshalIdentity(sid) == [ok |-> sid.enc = "proto", mspid |-> sid.mspid, idBytes |-> sid.idBytes]

Sign(k, m) == [key |-> k, msg |-> m]

\* areCertDatesValid(serializedID): the error ("" for nil) and the steps executed
areCertDatesValid(sid) ==
  LET u == UnmarshalIdentity(sid) IN
    IF ~u.ok THEN [err |-> "MalformedIdentity", log |-> <<"unmarshal">>]
    ELSE LET bl == pemDecode(u.idBytes) IN
      IF ~bl.found THEN [err |-> "MalformedIdentity", log |-> <<"unmarshal", "pemDecode">>]
      ELSE LET p == ParseCertificate(bl.block.der) IN
        IF ~p.ok THEN [err |-> "MalformedCertificate",
                       log |-> <<"unmarshal", "pemDecode", "parseCert">>]
        ELSE [err |-> IF ValidateCertificateDates(p.cert) THEN "" ELSE "TemporalValidityError",
              log |-> <<"unmarshal", "pemDecode", "parseCert", "validateDates">>]

NoIdentity == [mspid |-> "", roots |-> <<>>, cert |-> NoCert]

\* faulty variant: a lookup miss falls back to the only configured MSP
DeserializeIdentity_Fallback(mgr, sid) ==
  LET u == UnmarshalIdentity(sid) IN
    IF ~u.ok THEN [ok |-> FALSE, err |-> "MalformedIdentity", id |-> NoIdentity]
    ELSE IF u.mspid \notin DOMAIN mgr.mspsMap /\ Cardinality(DOMAIN mgr.mspsMap) # 1
      THEN [ok |-> FALSE, err |-> "UnknownTrustDomainError", id |-> NoIdentity]
    ELSE LET bl == pemDecode(u.idBytes)
             m == IF u.mspid \in DOMAIN mgr.mspsMap THEN u.mspid
                  ELSE CHOOSE k \in DOMAIN mgr.mspsMap : TRUE IN
      IF ~bl.found \/ ~ParseCertificate(bl.block.der).ok
        THEN [ok |-> FALSE, err |-> "CryptoError", id |-> NoIdentity]
        ELSE [ok |-> TRUE, err |-> "",
              id |-> [mspid |-> m, roots |-> mgr.mspsMap[m].roots,
                      cert |-> ParseCertificate(bl.block.der).cert]]

\* mspManager.DeserializeIdentity(serializedID): the identity bound to the MSP its
\* tag names, or the error
DeserializeIdentity(mgr, sid) ==
  LET u == UnmarshalIdentity(sid) IN
    IF ~u.ok THEN [ok |-> FALSE, err |-> "MalformedIdentity", id |-> NoIdentity]
    ELSE IF u.mspid \notin DOMAIN mgr.mspsMap
      THEN [ok |-> FALSE, err |-> "UnknownTrustDomainError", id |-> NoIdentity]
    ELSE LET bl == pemDecode(u.idBytes) IN
      IF ~bl.found \/ ~ParseCertificate(bl.block.der).ok
        THEN [ok |-> FALSE, err |-> "CryptoError", id |-> NoIdentity]
        ELSE [ok |-> TRUE, err |-> "",
              id |-> [mspid |-> u.mspid, roots |-> mgr.mspsMap[u.mspid].roots,
                      cert |-> ParseCertificate(bl.block.der).cert]]

\* id.Validate(): the certificate chains to a root of the identity's MSP
IdentityValidate(id) ==
  IF \E i \in 1..Len(id.roots) : id.roots[i] = id.cert.issuer
    THEN "" ELSE "TrustChainError"

\* id.Verify(msg, sig): the signature is one of the identity's key over msg
IdentityVerify(id, msg, sig) ==
  IF sig.key = id.cert.key /\ sig.msg = msg THEN "" ELSE "SignatureMismatch"

\* identityImpl.Validate(serializedID) run alone: the error returned ("" for nil)
Validate(mgr, sid) ==
  LET d == areCertDatesValid(sid) IN
    IF d.err # "" THEN d.err
    ELSE LET r == DeserializeIdentity(mgr, sid) IN
      IF ~r.ok THEN r.err ELSE IdentityValidate(r.id)

\* identityImpl.Verify(serializedID, msg, sig) run alone
Verify(mgr, sid, msg, sig) ==
  LET r == DeserializeIdentity(mgr, sid) IN
    IF ~r.ok THEN r.err ELSE IdentityVerify(r.id, msg, sig)

(***************************************************************************)
(* updateCAServerURL.  The backend's "certificateAuthorities" value is a   *)
(* map from CA key to CA config (its URL and its remaining fields, named   *)
(* by caName).                                                             *)
(***************************************************************************)
ZeroCAConfig == [url |-> "", caName |-> ""]

\* a Go map read: the zero value for an absent key
MapGet(m, k) == IF k \in DOMAIN m THEN m[k] ELSE ZeroCAConfig

\* a Go map write
MapPut(m, k, v) == [x \in DOMAIN m \cup {k} |-> IF x = k THEN v ELSE m[x]]

\* updateCAServerURL(caServerURL, backend): the backend's map after the call
updateCAServerURL(caServerURL, cas) ==
  LET ca1Config == [MapGet(cas, "ca.org1.example.com") EXCEPT !.url = caServerURL]
      ca2Config == [MapGet(cas, "ca.org2.example.com") EXCEPT !.url = caServerURL]
  IN MapPut(MapPut(cas, "ca.org1.example.com", ca1Config), ".ca.org2.example.com", ca2Config)

(***************************************************************************)
(* Inputs.                                                                 *)
(***************************************************************************)
PemItems ==
  { Junk,
    Block("CERTIFICATE", FALSE, "tlsGood"),
    Block("CERTIFICATE", FALSE, "tlsExpired"),
    Block("CERTIFICATE", FALSE, "badDER"),
    Block("CERTIFICATE", TRUE, "tlsGood"),
    Block("PRIVATE KEY", FALSE, "tlsGood") }

SeqsUpTo(S, n) == UNION { [1..k -> S] : k \in 0..n }

PemInputs == SeqsUpTo(PemItems, MaxPemLen)

PemGood == << Block("CERTIFICATE", FALSE, "tlsGood") >>

PemExpired == << Block("CERTIFICATE", FALSE, "tlsExpired") >>

PemMixed == << Junk, Block("PRIVATE KEY", FALSE, "tlsGood"),
               Block("CERTIFICATE", FALSE, "tlsExpired"), Block("CERTIFICATE", FALSE, "tlsGood") >>

\* (TLS roots, TLS intermediates) attached to a config
TLSChoices == { << <<>>, <<>> >>, << <<PemGood>>, <<PemExpired>> >>, << <<PemMixed>>, <<>> >> }

MSPConfig(t, p) == [type |-> t, payload |-> p]

Org1Config == MSPConfig(FABRIC, ProtoPayload("Org1MSP", <<"R1">>, <<PemGood>>, <<PemExpired>>))

Org2Config == MSPConfig(FABRIC, ProtoPayload("Org2MSP", <<"R2">>, <<PemMixed>>, <<>>))

ConfigSet ==
  { Org1Config, Org2Config,
    MSPConfig(FABRIC, ProtoPayload("Org1MSP", <<"R2">>, <<>>, <<>>)),
    MSPConfig(FABRIC, ProtoPayload("Org1MSP", <<>>, <<PemGood>>, <<PemExpired>>)),
    MSPConfig(FABRIC, ProtoPayload("", <<"R1">>, <<>>, <<>>)),
    MSPConfig(FABRIC, ProtoPayload("", <<>>, <<>>, <<>>)),
    MSPConfig(FABRIC, ProtoPayload("Org2MSP", <<"R1", "Rbad">>, <<PemMixed>>, <<>>)),
    MSPConfig(FABRIC, EmptyPayload),
    MSPConfig(FABRIC, GarbledPayload),
    MSPConfig("IDEMIX", ProtoPayload("Org1MSP", <<>>, <<>>, <<>>)),
    MSPConfig("IDEMIX", ProtoPayload("Org1MSP", <<"R1">>, <<PemGood>>, <<PemExpired>>)),
    MSPConfig("IDEMIX", EmptyPayload) }

ConfigLists == SeqsUpTo(ConfigSet, MaxConfigs)

\* the collaborator errors a call of New may meet
Faults ==
  { NoFault, [kind |-> "ManagerSetup", at |-> 0] }
  \cup { [kind |-> k, at |-> i] : k \in {"NewBccspMsp", "GetIdentifier"}, i \in 1..MaxConfigs }

\* the channel configurations the membership object is exercised on
ChannelCfgs ==
  { <<>>, <<Org1Config>>, <<Org1Config, Org2Config>>,
    <<Org1Config, MSPConfig(FABRIC, ProtoPayload("Org2MSP", <<>>, <<>>, <<>>))>> }

IdPem(der) == << Block("CERTIFICATE", FALSE, der) >>

Identities ==
  { GarbledIdentity,
    SerializedIdentity("Org1MSP", <<Junk>>),
    SerializedIdentity("Org1MSP", IdPem("badDER")),
    SerializedIdentity("Org1MSP", IdPem("idGood")),
    SerializedIdentity("Org1MSP", IdPem("idExpired")),
    SerializedIdentity("Org1MSP", IdPem("idFuture")),
    SerializedIdentity("Org2MSP", IdPem("idGood")),
    SerializedIdentity("OrgX", IdPem("idGood")),
    SerializedIdentity("OrgX", IdPem("idExpired")) }

Messages == {"m1", "m2"}

Signatures == { Sign("kA", "m1") }

Callers == 1..MaxCallers

CAKeys == {"ca.org1.example.com", "ca.org2.example.com", ".ca.org2.example.com", "ca.org3.example.com"}

CAConfigs == { [url |-> u, caName |-> "ca"] : u \in {"http://old", "http://127.0.0.1:7054"} }

CAMaps == UNION { [D -> CAConfigs] : D \in SUBSET CAKeys }

CAServerURLs == {"http://127.0.0.1:7054", "http://127.0.0.1:41000"}

(***************************************************************************)
(* State.                                                                  *)
(***************************************************************************)
VARIABLES
  newPc,      \* "start" before New is called, "done" after it returned
  configs,    \* cfg.MSPs() of the call to New
  envFault,   \* the collaborator error, if any, met in that call
  newRes,     \* New's error result: [ok, err]
  member,     \* New's first result: the membership object's manager, if any
  sink,       \* the TLS trust-pool sink
  calls,      \* per goroutine, the Validate / Verify call in progress
  pemIn,      \* the bytes handed to addCertsToConfig
  loopSt,     \* the state of addCertsToConfig's loop
  backend,    \* the config backend's certificateAuthorities map
  caBefore,   \* that map before updateCAServerURL was called
  caURL,      \* the URL updateCAServerURL was called with
  caPc        \* "start" before updateCAServerURL is called, "done" after

assemblyVars == <<newPc, configs, envFault, newRes, member, sink>>

pemVars == <<pemIn, loopSt>>

caVars == <<backend, caBefore, caURL, caPc>>

vars == <<newPc, configs, envFault, newRes, member, sink, calls, pemIn, loopSt,
          backend, caBefore, caURL, caPc>>

NoSig == Sign("", "")

IdleCall == [op |-> "none", sid |-> GarbledIdentity, msg |-> "", sig |-> NoSig,
             pc |-> "idle", log |-> <<>>, res |-> "", id |-> NoIdentity]

AssemblyInit(failing) ==
  /\ newPc = "start"
  /\ configs = <<>>
  /\ envFault = NoFault
  /\ newRes = [ok |-> FALSE, err |-> ""]
  /\ member = NoManager
  /\ sink = EmptySink(failing)

CallsInit == calls = [g \in Callers |-> IdleCall]

PemIdle ==
  /\ pemIn = <<>>
  /\ loopSt = [pemCerts |-> <<>>, sink |-> EmptySink(FALSE), done |-> TRUE]

CAIdle ==
  /\ backend = <<>>
  /\ caBefore = <<>>
  /\ caURL = ""
  /\ caPc = "start"

(***************************************************************************)
(* New.                                                                    *)
(***************************************************************************)
\* New(ctx, cfg) with cfg.MSPs() = cfgs
New(cfgs, flt) ==
  /\ newPc = "start"
  /\ LET r == createMSPManager(cfgs, flt, sink) IN
       /\ newRes' = [ok |-> r.ok, err |-> r.err]
       /\ member' = r.member
       /\ sink' = r.sink
  /\ configs' = cfgs
  /\ envFault' = flt
  /\ newPc' = "done"
  /\ UNCHANGED <<calls, pemVars, caVars>>

NewAny == \E cfgs \in ConfigLists, flt \in Faults : New(cfgs, flt)

NewChannel == \E cfgs \in ChannelCfgs : New(cfgs, NoFault)

(***************************************************************************)
(* Validate and Verify, called by goroutine g on the membership object.    *)
(***************************************************************************)
Finish(g, log, err) ==
  calls' = [calls EXCEPT ![g].pc = "done", ![g].log = log, ![g].res = err]

CallValidate(g) ==
  /\ newPc = "done" /\ newRes.ok
  /\ calls[g].pc = "idle"
  /\ \E sid \in Identities :
       calls' = [calls EXCEPT ![g] = [IdleCall EXCEPT !.op = "Validate", !.sid = sid, !.pc = "dates"]]
  /\ UNCHANGED <<assemblyVars, pemVars, caVars>>

\* faulty variant: Verify checks the certificate dates first, as Validate does
CallVerify_WithDates(g) ==
  /\ newPc = "done" /\ newRes.ok
  /\ calls[g].pc = "idle"
  /\ \E sid \in Identities, msg \in Messages, sig \in Signatures :
       calls' = [calls EXCEPT ![g] = [IdleCall EXCEPT !.op = "Verify", !.sid = sid, !.msg = msg,
                                                      !.sig = sig, !.pc = "dates"]]
  /\ UNCHANGED <<assemblyVars, pemVars, caVars>>

CallVerify(g) ==
  /\ newPc = "done" /\ newRes.ok
  /\ calls[g].pc = "idle"
  /\ \E sid \in Identities, msg \in Messages, sig \in Signatures :
       calls' = [calls EXCEPT ![g] = [IdleCall EXCEPT !.op = "Verify", !.sid = sid, !.msg = msg,
                                                      !.sig = sig, !.pc = "deser"]]
  /\ UNCHANGED <<assemblyVars, pemVars, caVars>>

\* faulty variant: the date error is logged and the return is missing
StepDates_NoReturn(g) ==
  /\ calls[g].pc = "dates"
  /\ calls' = [calls EXCEPT ![g].pc = "deser",
                            ![g].log = calls[g].log \o areCertDatesValid(calls[g].sid).log]
  /\ UNCHANGED <<assemblyVars, pemVars, caVars>>

\* faulty variant: an identity that fails the deserialization has its MSP dropped from the manager
StepDeserialize_Evict(g) ==
  /\ calls[g].pc = "deser"
  /\ LET r == DeserializeIdentity(member.mgr, calls[g].sid)
         log == Append(calls[g].log, "deserialize")
         keep == DOMAIN member.mgr.mspsMap \ {calls[g].sid.mspid} IN
       IF ~r.ok
         THEN /\ Finish(g, log, r.err)
              /\ member' = [member EXCEPT !.mgr.mspsMap = [k \in keep |-> member.mgr.mspsMap[k]]]
         ELSE /\ calls' = [calls EXCEPT ![g].pc = IF calls[g].op = "Validate" THEN "idval" ELSE "idver",
                                        ![g].log = log, ![g].id = r.id]
              /\ member' = member
  /\ UNCHANGED <<newPc, configs, envFault, newRes, sink, pemVars, caVars>>

\* Validate: err := areCertDatesValid(serializedID); if err != nil { return err }
StepDates(g) ==
  /\ calls[g].pc = "dates"
  /\ LET d == areCertDatesValid(calls[g].sid)
         log == calls[g].log \o d.log IN
       IF d.err # ""
         THEN Finish(g, log, d.err)
         ELSE calls' = [calls EXCEPT ![g].pc = "deser", ![g].log = log]
  /\ UNCHANGED <<assemblyVars, pemVars, caVars>>

\* id, err := i.mspManager.DeserializeIdentity(serializedID); if err != nil { return err }
StepDeserialize(g) ==
  /\ calls[g].pc = "deser"
  /\ LET r == DeserializeIdentity(member.mgr, calls[g].sid)
         log == Append(calls[g].log, "deserialize") IN
       IF ~r.ok
         THEN Finish(g, log, r.err)
         ELSE calls' = [calls EXCEPT ![g].pc = IF calls[g].op = "Validate" THEN "idval" ELSE "idver",
                                     ![g].log = log, ![g].id = r.id]
  /\ UNCHANGED <<assemblyVars, pemVars, caVars>>

\* return id.Validate()
StepIdValidate(g) ==
  /\ calls[g].pc = "idval"
  /\ Finish(g, Append(calls[g].log, "idValidate"), IdentityValidate(calls[g].id))
  /\ UNCHANGED <<assemblyVars, pemVars, caVars>>

\* return id.Verify(msg, sig)
StepIdVerify(g) ==
  /\ calls[g].pc = "idver"
  /\ Finish(g, Append(calls[g].log, "idVerify"),
            IdentityVerify(calls[g].id, calls[g].msg, calls[g].sig))
  /\ UNCHANGED <<assemblyVars, pemVars, caVars>>

\* the caller has read the result; the goroutine may call again
Return(g) ==
  /\ calls[g].pc = "done"
  /\ calls' = [calls EXCEPT ![g] = IdleCall]
  /\ UNCHANGED <<assemblyVars, pemVars, caVars>>

(***************************************************************************)
(* addCertsToConfig's loop, one iteration at a time.                       *)
(***************************************************************************)
AddCertsStep ==
  /\ ~loopSt.done
  /\ loopSt' = addCertsIter(loopSt)
  /\ UNCHANGED <<assemblyVars, calls, pemIn, caVars>>

(***************************************************************************)
(* updateCAServerURL on the backend.                                       *)
(***************************************************************************)
UpdateCAServerURL ==
  /\ caPc = "start"
  /\ \E u \in CAServerURLs :
       /\ backend' = updateCAServerURL(u, backend)
       /\ caURL' = u
  /\ caBefore' = backend
  /\ caPc' = "done"
  /\ UNCHANGED <<assemblyVars, calls, pemVars>>

(***************************************************************************)
(* Specifications.                                                         *)
(***************************************************************************)
\* a channel's membership object and the goroutines using it
Init == AssemblyInit(FALSE) /\ CallsInit /\ PemIdle /\ CAIdle

Next ==
  \/ NewChannel
  \/ \E g \in Callers : CallValidate(g)
  \/ \E g \in Callers : CallVerify(g)
  \/ \E g \in Callers : StepDates(g)
  \/ \E g \in Callers : StepDeserialize(g)
  \/ \E g \in Callers : StepIdValidate(g)
  \/ \E g \in Callers : StepIdVerify(g)
  \/ \E g \in Callers : Return(g)

Spec == Init /\ [][Next]_vars

\* the assembly over every list of configs
InitAssemble == (\E f \in BOOLEAN : AssemblyInit(f)) /\ CallsInit /\ PemIdle /\ CAIdle

NextAssemble == NewAny

SpecAssemble == InitAssemble /\ [][NextAssemble]_vars

\* addCertsToConfig over every byte input
InitPem ==
  /\ AssemblyInit(FALSE) /\ CallsInit /\ CAIdle
  /\ pemIn \in PemInputs
  /\ \E f \in BOOLEAN : loopSt = [pemCerts |-> pemIn, sink |-> EmptySink(f), done |-> FALSE]

NextPem == AddCertsStep

SpecPem == InitPem /\ [][NextPem]_vars /\ WF_vars(NextPem)

\* updateCAServerURL over every backend map
InitCA ==
  /\ AssemblyInit(FALSE) /\ CallsInit /\ PemIdle
  /\ backend \in CAMaps
  /\ caBefore = <<>>
  /\ caURL = ""
  /\ caPc = "start"

NextCA == UpdateCAServerURL

SpecCA == InitCA /\ [][NextCA]_vars

(***************************************************************************)
(* Properties.                                                             *)
(***************************************************************************)
Range(q) == { q[i] : i \in 1..Len(q) }

IsPrefix(p, q) == Len(p) <= Len(q) /\ SubSeq(q, 1, Len(p)) = p

Registry == DOMAIN member.mgr.mspsMap

\* the FabricMSPConfig a config's payload decodes to, when it decodes
Decodes(config) == UnmarshalFabricConfig(config.payload).ok

Decoded(config) == UnmarshalFabricConfig(config.payload).fc

\* C1: New has two outcomes: an error and no manager, or a manager whose registry
\* holds one trust domain per config, keyed by the config's name (so exactly
\* Len(configs) entries, also when two configs carry the same name); the empty
\* list yields an empty manager and no error.
C1_AllOrNothingRegistry ==
  newPc = "done" =>
    /\ (~newRes.ok /\ ~member.present) \/ (newRes.ok /\ member.present)
    /\ newRes.ok =>
         /\ Cardinality(Registry) = Len(configs)
         /\ \A i \in 1..Len(configs) : Decoded(configs[i]).name \in Registry
    /\ configs = <<>> => newRes.ok /\ Registry = {}

\* C5 as stated: a single config with no root certificate fails with
\* MissingRootCerts, whatever its provider type, payload and name.
C5_AlwaysMissingRootCerts ==
  (newPc = "done" /\ Len(configs) = 1 /\ Decodes(configs[1])
     /\ Len(Decoded(configs[1]).roots) = 0)
  => (~newRes.ok /\ newRes.err = "MissingRootCerts")

\* the error of the first check of loadMSPs / getFabricConfig that a config with
\* no root certificate fails
FirstConfigError(config) ==
  IF config.type # FABRIC THEN "UnsupportedProviderType"
  ELSE IF config.payload.enc = "empty" THEN "MissingPayload"
  ELSE IF Decoded(config).name = "" THEN "MissingName"
  ELSE "MissingRootCerts"

\* C5 amended: a single config with no root certificate always fails, with no
\* manager; the error is MissingRootCerts when the provider type is supported,
\* the payload is not empty and the name is not empty, and otherwise the error
\* of the earlier check (type, then payload, then name) that fails first.
C5_MissingRootCertsAfterEarlierChecks ==
  (newPc = "done" /\ Len(configs) = 1 /\ Decodes(configs[1])
     /\ Len(Decoded(configs[1]).roots) = 0)
  => (~newRes.ok /\ ~member.present /\ newRes.err = FirstConfigError(configs[1]))

C5_Witness ==
  /\ newPc = "done" /\ Len(configs) = 1
  /\ configs[1].type = FABRIC /\ configs[1].payload.enc = "proto"
  /\ Decoded(configs[1]).name = "Org1MSP" /\ Len(Decoded(configs[1]).roots) = 0
  /\ Len(Decoded(configs[1]).tlsRoots) > 0
  /\ newRes = [ok |-> FALSE, err |-> "MissingRootCerts"]

\* a config without its TLS certificates
StripTLS(config) ==
  [config EXCEPT !.payload.fc.tlsRoots = <<>>, !.payload.fc.tlsInter = <<>>]

\* the DER strings of the X.509 certificates a PEM byte string holds in
\* header-less CERTIFICATE blocks
CertsIn(pem) ==
  { pem[i].der : i \in { j \in 1..Len(pem) :
       /\ pem[j].kind = "block" /\ pem[j].type = "CERTIFICATE" /\ ~pem[j].hdr
       /\ pem[j].der \in DOMAIN CertTable } }

TLSCertsOf(config) ==
  UNION { CertsIn(Decoded(config).tlsRoots[i]) : i \in 1..Len(Decoded(config).tlsRoots) }
  \cup UNION { CertsIn(Decoded(config).tlsInter[i]) : i \in 1..Len(Decoded(config).tlsInter) }

\* C6: the result of New (error, and the registry's keys) is the one New gives
\* for the same configs without any TLS certificate, whether or not the TLS
\* certificates are inside their window and whether or not the sink returns
\* errors; and on success every TLS root and intermediate certificate of every
\* config, expired or not, has been handed to the sink.
C6_TLSFailuresNonFatal ==
  newPc = "done" =>
    LET r == createMSPManager([i \in 1..Len(configs) |-> StripTLS(configs[i])],
                              envFault, EmptySink(FALSE)) IN
      /\ newRes = [ok |-> r.ok, err |-> r.err]
      /\ member.present = r.member.present
      /\ Registry = DOMAIN r.member.mgr.mspsMap
      /\ newRes.ok => \A i \in 1..Len(configs) : TLSCertsOf(configs[i]) \subseteq Range(sink.calls)

C6_Witness ==
  /\ newPc = "done" /\ newRes.ok /\ sink.failing
  /\ "tlsExpired" \in Range(sink.calls)
  /\ ~ValidateCertificateDates(CertTable["tlsExpired"])

\* C8: when New fails (a config rejected, an MSP not set up, or the manager's
\* Setup failing) the sink has received no certificate, not even those of valid
\* configs that precede the failing one; with no config the sink is untouched too.
C8_NoSinkCallOnFailure ==
  newPc = "done" =>
    /\ ~newRes.ok => sink.calls = <<>>
    /\ configs = <<>> => sink.calls = <<>>

C8_Witness ==
  /\ newPc = "done" /\ ~newRes.ok /\ Len(configs) = 2
  /\ loadAt(configs[1], 1, envFault).ok /\ TLSCertsOf(configs[1]) # {}
  /\ ~loadAt(configs[2], 2, envFault).ok
  /\ sink.calls = <<>>

\* the certificates addCertsToConfig is to forward for an input, in input order
RECURSIVE ExpectedForward(_)
ExpectedForward(pem) ==
  IF pem = <<>> THEN <<>>
  ELSE IF /\ Head(pem).kind = "block" /\ Head(pem).type = "CERTIFICATE" /\ ~Head(pem).hdr
          /\ Head(pem).der \in DOMAIN CertTable
    THEN <<Head(pem).der>> \o ExpectedForward(Tail(pem))
    ELSE ExpectedForward(Tail(pem))

\* C9: for every input addCertsToConfig's loop ends, and when it has ended the
\* sink has received exactly the header-less CERTIFICATE blocks that parse as
\* X.509, in input order: other blocks and bytes are skipped without ending the
\* scan, and a certificate outside its window is forwarded all the same.
C9_ForwardsExactlyTheCertificates ==
  /\ <>(loopSt.done)
  /\ [](loopSt.done => loopSt.sink.calls = ExpectedForward(pemIn))
  /\ [](IsPrefix(loopSt.sink.calls, ExpectedForward(pemIn)))

C9_Witness ==
  /\ loopSt.done /\ Len(pemIn) = 3
  /\ pemIn[1] = Block("PRIVATE KEY", FALSE, "tlsGood")
  /\ pemIn[2] = Block("CERTIFICATE", FALSE, "tlsExpired")
  /\ pemIn[3] = Junk
  /\ loopSt.sink.calls = <<"tlsExpired">>

\* C10: after updateCAServerURL on a backend holding both CA entries, both
\* entries carry the given URL and the map has the keys it had before.
C10_UpdatesBothEntriesInPlace ==
  (caPc = "done" /\ {"ca.org1.example.com", "ca.org2.example.com"} \subseteq DOMAIN caBefore)
  => /\ backend["ca.org1.example.com"].url = caURL
     /\ backend["ca.org2.example.com"].url = caURL
     /\ DOMAIN backend = DOMAIN caBefore

\* the steps of Validate in the order of the code
ValidateOrder ==
  <<"unmarshal", "pemDecode", "parseCert", "validateDates", "deserialize", "idValidate">>

\* the first PEM block of an identity's bytes, if any
HasBlock(sid) == \E i \in 1..Len(sid.idBytes) : sid.idBytes[i].kind = "block"

FirstBlock(sid) ==
  sid.idBytes[CHOOSE i \in 1..Len(sid.idBytes) :
                /\ sid.idBytes[i].kind = "block"
                /\ \A j \in 1..(i - 1) : sid.idBytes[j].kind # "block"]

\* the identity decodes down to an X.509 certificate
HasCert(sid) == sid.enc = "proto" /\ HasBlock(sid) /\ FirstBlock(sid).der \in DOMAIN CertTable

CertOf(sid) == CertTable[FirstBlock(sid).der]

OutsideWindow(sid) == HasCert(sid) /\ (Now < CertOf(sid).nb \/ Now > CertOf(sid).na)

\* the position in ValidateOrder of the first step that fails for an identity,
\* 0 when none does
FirstFailure(sid) ==
  IF sid.enc # "proto" THEN 1
  ELSE IF ~HasBlock(sid) THEN 2
  ELSE IF FirstBlock(sid).der \notin DOMAIN CertTable THEN 3
  ELSE IF OutsideWindow(sid) THEN 4
  ELSE IF sid.mspid \notin Registry THEN 5
  ELSE IF CertOf(sid).issuer \notin Range(member.mgr.mspsMap[sid.mspid].roots) THEN 6
  ELSE 0

\* C2: a Validate call runs its steps in the fixed order and returns at the
\* first step that fails: the steps executed are always a prefix of the order,
\* a finished call has executed the steps up to the first failing one and no
\* further, and returns nil exactly when none fails.  For a certificate outside
\* its window the call returns the temporal-validity error and neither the
\* deserialization nor the identity's validation has been invoked, whatever
\* the identity's MSP tag.
C2_ValidateOrderAndStop ==
  \A g \in Callers : calls[g].op = "Validate" =>
    /\ IsPrefix(calls[g].log, ValidateOrder)
    /\ calls[g].pc = "done" =>
         LET ff == FirstFailure(calls[g].sid) IN
           /\ calls[g].log = SubSeq(ValidateOrder, 1, IF ff = 0 THEN Len(ValidateOrder) ELSE ff)
           /\ (calls[g].res = "") <=> (ff = 0)
    /\ (calls[g].pc = "done" /\ OutsideWindow(calls[g].sid)) =>
         /\ calls[g].res = "TemporalValidityError"
         /\ "deserialize" \notin Range(calls[g].log)
         /\ "idValidate" \notin Range(calls[g].log)
    /\ OutsideWindow(calls[g].sid) => calls[g].pc \in {"dates", "done"}

C2_Witness ==
  \E g \in Callers :
    /\ calls[g].op = "Validate" /\ calls[g].pc = "done"
    /\ calls[g].sid = SerializedIdentity("OrgX", IdPem("idExpired"))
    /\ calls[g].res = "TemporalValidityError"
    /\ calls[g].log = <<"unmarshal", "pemDecode", "parseCert", "validateDates">>

\* C3: a Verify call makes no date check, and succeeds exactly when the
\* identity decodes, its MSP is in the registry, its certificate is found and
\* the signature is one of the certificate's key over the message; a failing
\* signature check gives SignatureMismatch.  This holds whatever calls were
\* made before, and whatever the certificate's window.
C3_VerifyIndependentOfDates ==
  \A g \in Callers : calls[g].op = "Verify" =>
    /\ "validateDates" \notin Range(calls[g].log)
    /\ calls[g].pc # "dates"
    /\ calls[g].pc = "done" =>
         LET sid == calls[g].sid
             resolves == HasCert(sid) /\ sid.mspid \in Registry
             signed == calls[g].sig.key = CertOf(sid).key /\ calls[g].sig.msg = calls[g].msg IN
           /\ (calls[g].res = "") <=> (resolves /\ signed)
           /\ (resolves /\ ~signed) => calls[g].res = "SignatureMismatch"

\* a Validate call has rejected an expired identity, and a Verify call on the
\* same identity has succeeded
C3_Witness ==
  \E g, h \in Callers :
    /\ calls[g].op = "Validate" /\ calls[g].pc = "done"
    /\ calls[g].res = "TemporalValidityError"
    /\ calls[h].op = "Verify" /\ calls[h].pc = "done"
    /\ calls[h].sid = calls[g].sid
    /\ calls[h].res = ""

\* C4: a finished Validate or Verify call on a well-formed identity (decodable,
\* certificate inside its window) whose MSP tag is no key of the registry has
\* returned the unknown-trust-domain error, whatever the registry holds.
C4_UnknownTrustDomain ==
  \A g \in Callers :
    (/\ calls[g].pc = "done"
     /\ HasCert(calls[g].sid) /\ ~OutsideWindow(calls[g].sid)
     /\ calls[g].sid.mspid \notin Registry)
    => calls[g].res = "UnknownTrustDomainError"

\* with exactly one MSP configured, a Validate and a Verify call on an identity
\* of another MSP have both failed
C4_Witness ==
  \E g, h \in Callers :
    /\ Cardinality(Registry) = 1
    /\ calls[g].op = "Validate" /\ calls[g].pc = "done"
    /\ calls[h].op = "Verify" /\ calls[h].pc = "done"
    /\ calls[g].sid = SerializedIdentity("Org2MSP", IdPem("idGood"))
    /\ calls[h].sid = calls[g].sid
    /\ calls[g].res = "UnknownTrustDomainError"
    /\ calls[h].res = "UnknownTrustDomainError"

\* C7: once New has returned, no step of any Validate or Verify call changes
\* the manager (or the sink), and every finished call has returned what the
\* call returns when run alone on that manager.
C7_ReadOnlyAfterAssembly ==
  /\ [][newPc = "done" => (member' = member /\ sink' = sink)]_vars
  /\ [](\A g \in Callers : calls[g].pc = "done" =>
          calls[g].res = IF calls[g].op = "Validate"
                           THEN Validate(member.mgr, calls[g].sid)
                           ELSE Verify(member.mgr, calls[g].sid, calls[g].msg, calls[g].sig))

\* two calls in flight at once on a registry of two MSPs
C7_Witness ==
  \E g, h \in Callers :
    /\ Cardinality(Registry) = 2
    /\ calls[g].op = "Validate" /\ calls[g].pc = "idval"
    /\ calls[h].op = "Verify" /\ calls[h].pc = "idver"

====
